---- MODULE Spec2Model ----
(***************************************************************************)
(* Chopsticks solver (src/algo.py): the move generators, the exhaustive    *)
(* exploration of the positions reachable from (1,1,1,1,0), the reversal   *)
(* of the move graph and the retrograde win/loss/draw propagation.         *)
(*                                                                         *)
(* A position is a 5-tuple <<p1_left, p1_right, p2_left, p2_right, turn>>. *)
(* Python lists are sequences, dicts are functions together with the       *)
(* sequence of their keys in insertion order.                              *)
(***************************************************************************)
EXTENDS Integers, Sequences, FiniteSets, TLC

\* Largest kill modulus k explored by Spec and SpecMoves.
MaxK == 4
\* Largest hand value passed to the move generators by SpecMoves.
MaxHand == 3
\* Largest kill modulus k explored by SpecAnyOrder.
MaxKAny == 3
\* Most choices of a run of SpecAnyOrder that leave the order of the code.
MaxDeviations == 1

VARIABLES
    k,                 \* the kill modulus
    order,             \* iteration order of the sets built by list(set(...))
    pc,                \* position of the program
    graph,             \* generate_graph: graph (dict position -> list)
    keys,              \* insertion order of graph's keys
    stack,             \* the work stack of generate_graph, then of solve_graph
    parents,           \* solve_graph: parents = reverse_graph(g)
    state_lookup,      \* solve_graph: state_lookup
    winning_children,  \* solve_graph: winning_children
    visited,           \* solve_graph: visited
    explored_draw,     \* TRUE once the "exploring a draw node" branch ran
    args,              \* SpecMoves: <<attacker, defender, turn>> of the call
    ret,               \* SpecMoves: the list the generator returned
    push_count,        \* history: times a position was pushed by generate_graph
    expand_count,      \* history: times a position's successors were computed
    processed_as,      \* history: the classifications a position was processed with
    deviations         \* SpecAnyOrder: choices so far that left the code's order

hist == <<push_count, expand_count, processed_as>>

vars == <<k, order, pc, graph, keys, stack, parents, state_lookup,
          winning_children, visited, explored_draw, args, ret, hist,
          deviations>>

\* The two iteration orders of a set the model explores.  Python does not
\* specify the order in which list(set(xs)) lists the elements.
Orders == {"asc", "desc"}

EmptyMap == [p \in {} |-> 0]

\* One more occurrence of x in the counts f.
Bump(f, x) ==
    [y \in DOMAIN f \cup {x} |->
        IF y = x THEN (IF x \in DOMAIN f THEN f[x] + 1 ELSE 1) ELSE f[y]]

\* One more entry v in the log f of x.
Record(f, x, v) ==
    [y \in DOMAIN f \cup {x} |->
        IF y = x THEN (IF x \in DOMAIN f THEN Append(f[x], v) ELSE <<v>>)
        ELSE f[y]]

BumpAll(f, xs) ==
    [y \in DOMAIN f \cup {xs[i] : i \in 1..Len(xs)} |->
        (IF y \in DOMAIN f THEN f[y] ELSE 0)
            + Cardinality({i \in 1..Len(xs) : xs[i] = y})]

Range(s) == {s[i] : i \in 1..Len(s)}

----------------------------------------------------------------------------
(* list(set(xs)): the distinct elements of xs, in the order `order`.       *)

Less(p, q) ==
    \E i \in 1..Len(p) : p[i] < q[i] /\ \A j \in 1..(i - 1) : p[j] = q[j]

First(S, ord) ==
    CHOOSE p \in S : \A q \in S :
        q = p \/ (IF ord = "asc" THEN Less(p, q) ELSE Less(q, p))

RECURSIVE SetToList(_, _)
SetToList(S, ord) ==
    IF S = {} THEN <<>>
    ELSE LET p == First(S, ord) IN <<p>> \o SetToList(S \ {p}, ord)

ListOfSet(xs) == SetToList(Range(xs), order)

----------------------------------------------------------------------------
(* generate_tap_states                                                     *)

\* Lines 15-17: the value of the tapped hand.
tap_new_value_gt(a, d, kk) == IF a + d > kk THEN 0 ELSE a + d
tap_new_value(a, d, kk) == IF a + d >= kk THEN 0 ELSE a + d

\* Lines 22-25: the successor, player 1's hands first, the turn flipped.
tap_state_noflip(attacker, new_defender, turn) ==
    IF turn = 0 THEN attacker \o new_defender \o <<0>>
    ELSE new_defender \o attacker \o <<1>>
tap_state(attacker, new_defender, turn) ==
    IF turn = 0 THEN attacker \o new_defender \o <<1>>
    ELSE new_defender \o attacker \o <<0>>

\* Lines 12-13: the pair (i, j) is skipped.
tap_skip(attacker, defender, i, j) == attacker[i] = 0 \/ defender[j] = 0

\* Lines 9-25: next_states before deduplication; (i, j) runs over
\* (0,0), (0,1), (1,0), (1,1), here hands 1 and 2.
tap_one(attacker, defender, turn, kk, i, j) ==
    IF tap_skip(attacker, defender, i, j) THEN <<>>
    ELSE <<tap_state(attacker,
                     [defender EXCEPT
                        ![j] = tap_new_value(attacker[i], defender[j], kk)],
                     turn)>>

tap_next_states(attacker, defender, turn, kk) ==
    tap_one(attacker, defender, turn, kk, 1, 1)
    \o tap_one(attacker, defender, turn, kk, 1, 2)
    \o tap_one(attacker, defender, turn, kk, 2, 1)
    \o tap_one(attacker, defender, turn, kk, 2, 2)

generate_tap_states_nodedup(attacker, defender, turn, kk) ==
    tap_next_states(attacker, defender, turn, kk)
generate_tap_states(attacker, defender, turn, kk) ==
    ListOfSet(tap_next_states(attacker, defender, turn, kk))

----------------------------------------------------------------------------
(* generate_split_states                                                   *)

\* sorted() of a two-element list.
sorted2(h) == IF h[1] <= h[2] THEN h ELSE <<h[2], h[1]>>

\* Lines 37-38: a hand of the split is out of range.
split_illegal_gt(left_fingers, right_fingers, kk) ==
    left_fingers > kk \/ right_fingers > kk
split_illegal(left_fingers, right_fingers, kk) ==
    left_fingers >= kk \/ right_fingers >= kk

\* Lines 41-42: the split reproduces the mover's hands.
split_identical_ordered(left_fingers, right_fingers, attacker) ==
    <<left_fingers, right_fingers>> = attacker
split_identical(left_fingers, right_fingers, attacker) ==
    sorted2(<<left_fingers, right_fingers>>) = sorted2(attacker)

\* Lines 45-48: the successor, player 1's hands first, the turn flipped.
split_state(left_fingers, right_fingers, defender, turn) ==
    IF turn = 0 THEN <<left_fingers, right_fingers>> \o defender \o <<1>>
    ELSE defender \o <<left_fingers, right_fingers>> \o <<0>>

\* Lines 33-48: the loop over left_fingers, from left_fingers on.
RECURSIVE split_loop(_, _, _, _, _)
split_loop(attacker, defender, turn, kk, left_fingers) ==
    LET total_fingers == attacker[1] + attacker[2]
        right_fingers == total_fingers - left_fingers
    IN IF left_fingers > total_fingers THEN <<>>
       ELSE (IF \/ split_illegal(left_fingers, right_fingers, kk)
                \/ split_identical(left_fingers, right_fingers, attacker)
             THEN <<>>
             ELSE <<split_state(left_fingers, right_fingers, defender, turn)>>)
            \o split_loop(attacker, defender, turn, kk, left_fingers + 1)

generate_split_states(attacker, defender, turn, kk) ==
    ListOfSet(split_loop(attacker, defender, turn, kk, 0))

----------------------------------------------------------------------------
(* generate_graph                                                          *)

initial_state == <<1, 1, 1, 1, 0>>

\* Lines 64-67: the popped state is terminal.
is_terminal_or(state) ==
    \/ state[1] = 0 \/ state[2] = 0
    \/ state[3] = 0 /\ state[4] = 0
is_terminal(state) ==
    \/ state[1] = 0 /\ state[2] = 0
    \/ state[3] = 0 /\ state[4] = 0

\* Lines 70-79: the successors of a non-terminal state.
expand(state, kk) ==
    LET turn == state[5]
        attacker == IF turn = 0 THEN <<state[1], state[2]>>
                    ELSE <<state[3], state[4]>>
        defender == IF turn = 0 THEN <<state[3], state[4]>>
                    ELSE <<state[1], state[2]>>
    IN generate_tap_states(attacker, defender, turn, kk)
       \o generate_split_states(attacker, defender, turn, kk)

\* Lines 82-85: the successors that are not yet keys, each once, in order.
fresh_all(next_states, known) == next_states
RECURSIVE fresh(_, _)
fresh(next_states, known) ==
    IF next_states = <<>> THEN <<>>
    ELSE LET n == Head(next_states)
         IN IF n \in known THEN fresh(Tail(next_states), known)
            ELSE <<n>> \o fresh(Tail(next_states), known \cup {n})

\* Lines 59-85: one iteration of the exploration loop.
GenStep ==
    /\ pc = "generate"
    /\ stack # <<>>
    /\ LET state == stack[Len(stack)]
           rest == SubSeq(stack, 1, Len(stack) - 1)
       IN IF is_terminal(state)
          THEN /\ stack' = rest
               /\ UNCHANGED <<graph, keys, push_count, expand_count>>
          ELSE \E next_states \in {expand(state, k)} :
               \E keys1 \in {IF state \in DOMAIN graph THEN keys
                            ELSE Append(keys, state)} :
               \E new \in {fresh(next_states, Range(keys1))} :
                  /\ graph' = [p \in Range(keys1) \cup Range(new) |->
                                 IF p = state THEN next_states
                                 ELSE IF p \in DOMAIN graph THEN graph[p]
                                 ELSE <<>>]
                  /\ keys' = keys1 \o new
                  /\ stack' = rest \o new
                  /\ push_count' = BumpAll(push_count, new)
                  /\ expand_count' = Bump(expand_count, state)
    /\ UNCHANGED deviations
    /\ UNCHANGED <<k, order, pc, parents, state_lookup, winning_children,
                   visited, explored_draw, args, ret, processed_as>>

\* Line 86: the stack is empty, the graph is returned to solve_graph
\* (line 150).
GenReturn ==
    /\ pc = "generate"
    /\ stack = <<>>
    /\ pc' = "generated"
    /\ UNCHANGED deviations
    /\ UNCHANGED <<k, order, graph, keys, stack, parents, state_lookup,
                   winning_children, visited, explored_draw, args, ret, hist>>

----------------------------------------------------------------------------
(* reverse_graph                                                           *)

\* Lines 92-93: the inner loop for one state.  g_reverse[child] raises
\* KeyError when child is not a key: the loop stops (see reverse_key_error).
RECURSIVE reverse_children(_, _, _)
reverse_children(g_reverse, state, children) ==
    IF children = <<>> THEN g_reverse
    ELSE IF Head(children) \notin DOMAIN g_reverse THEN g_reverse
    ELSE CHOOSE r \in {reverse_children(next, state, Tail(children)) :
                         next \in {[g_reverse EXCEPT
                                      ![Head(children)] = Append(@, state)]}} :
             TRUE

\* Lines 91-93: the loop over g.items(), in insertion order, for the items
\* lo..hi of ks (an empty g has no items); the range is halved and g_reverse
\* is inspected first to keep the evaluation shallow.
RECURSIVE reverse_items(_, _, _, _, _)
reverse_items(g_reverse, g, ks, lo, hi) ==
    IF lo > hi \/ DOMAIN g_reverse = {} THEN g_reverse
    ELSE IF lo = hi THEN reverse_children(g_reverse, ks[lo], g[ks[lo]])
    ELSE LET mid == (lo + hi) \div 2
         IN CHOOSE r \in {reverse_items(left, g, ks, mid + 1, hi) :
                             left \in {reverse_items(g_reverse, g, ks, lo, mid)}} :
                TRUE

reverse_graph_skip_first(g, ks) ==
    reverse_items([state \in DOMAIN g |-> <<>>], g, ks, 2, Len(ks))
reverse_graph(g, ks) ==
    reverse_items([state \in DOMAIN g |-> <<>>], g, ks, 1, Len(ks))

\* g_reverse[child] raises KeyError when a child is not a key of g.
reverse_key_error(g) ==
    \E state \in DOMAIN g : \E child \in Range(g[state]) : child \notin DOMAIN g

----------------------------------------------------------------------------
(* solve_graph                                                             *)

\* Lines 156-160: the terminal states, in the order of g.items().
terminal_states_all(g, ks) == ks
terminal_states(g, ks) == SelectSeq(ks, LAMBDA state : Len(g[state]) = 0)

\* Line 151: parents = reverse_graph(g).
ReverseGraph ==
    /\ pc = "generated"
    /\ IF reverse_key_error(graph)
       THEN /\ pc' = "KeyError"
            /\ UNCHANGED parents
       ELSE /\ pc' = "reversed"
            /\ parents' = reverse_graph(graph, keys)
    /\ UNCHANGED deviations
    /\ UNCHANGED <<k, order, graph, keys, stack, state_lookup,
                   winning_children, visited, explored_draw, args, ret, hist>>

\* Line 160: a terminal state is seeded as a loss, the others stay draws
\* (line 152).
seed_value(children) == IF Len(children) = 0 THEN -1 ELSE 0

\* Lines 152-164: the tables, the terminal states and the seeded stack.
SolveInit ==
    /\ pc = "reversed"
    /\ pc' = "solve"
    /\ state_lookup' = [state \in DOMAIN graph |-> seed_value(graph[state])]
    /\ winning_children' = [state \in DOMAIN graph |-> 0]
    /\ visited' = {}
    /\ stack' = terminal_states(graph, keys)
    /\ UNCHANGED deviations
    /\ UNCHANGED <<k, order, graph, keys, parents, explored_draw, args, ret,
                   hist>>

\* Lines 174-177: the parents of a LOSS state; acc = <<state_lookup, stack>>.
RECURSIVE loss_parents(_, _, _)
loss_parents(acc, ps, seen) ==
    IF ps = <<>> THEN acc
    ELSE LET p == Head(ps)
         IN CHOOSE r \in {loss_parents(next, Tail(ps), seen) : next \in {
              <<[acc[1] EXCEPT ![p] = 1],
                IF p \notin seen THEN Append(acc[2], p) ELSE acc[2]>>}} : TRUE

\* Line 181: every child of p has been counted as winning.
all_children_win_gt(count, children) == count > Len(children)
all_children_win_any(count, children) == count >= 1
all_children_win(count, children) == count = Len(children)

\* Lines 179-184: the parents of a WIN state;
\* acc = <<state_lookup, stack, winning_children>>.
RECURSIVE win_parents(_, _, _)
win_parents(acc, ps, seen) ==
    IF ps = <<>> THEN acc
    ELSE LET p == Head(ps)
             wc == [acc[3] EXCEPT ![p] = @ + 1]
         IN CHOOSE r \in {win_parents(next, Tail(ps), seen) : next \in {
              IF all_children_win(wc[p], graph[p])
              THEN <<[acc[1] EXCEPT ![p] = -1],
                     IF p \notin seen THEN Append(acc[2], p) ELSE acc[2],
                     wc>>
              ELSE <<acc[1], acc[2], wc>>}} : TRUE

\* Lines 167-168: the popped state was processed before.
already_visited_never(state, seen) == FALSE
already_visited(state, seen) == state \in seen

\* The list s from its last element to its first.
Reversed(s) == [j \in 1..Len(s) |-> s[Len(s) + 1 - j]]

\* Lines 165-186: one iteration of the propagation loop, on the entry at
\* index i of the worklist and on the predecessors of that entry in the order
\* ps.
SolveAt(i, ps) ==
    /\ LET state == stack[i]
           rest == SubSeq(stack, 1, i - 1) \o SubSeq(stack, i + 1, Len(stack))
           seen == visited \cup {state}
       IN IF already_visited(state, visited)
          THEN /\ stack' = rest
               /\ UNCHANGED <<state_lookup, winning_children, visited,
                              explored_draw, processed_as>>
          ELSE /\ visited' = seen
               /\ processed_as' = Record(processed_as, state, state_lookup[state])
               /\ IF state_lookup[state] = -1
                  THEN LET r == loss_parents(<<state_lookup, rest>>, ps, seen)
                       IN /\ state_lookup' = r[1]
                          /\ stack' = r[2]
                          /\ UNCHANGED <<winning_children, explored_draw>>
                  ELSE IF state_lookup[state] = 1
                  THEN LET r == win_parents(
                                  <<state_lookup, rest, winning_children>>,
                                  ps, seen)
                       IN /\ state_lookup' = r[1]
                          /\ stack' = r[2]
                          /\ winning_children' = r[3]
                          /\ UNCHANGED explored_draw
                  ELSE /\ explored_draw' = TRUE
                       /\ stack' = rest
                       /\ UNCHANGED <<state_lookup, winning_children>>
    /\ UNCHANGED <<k, order, pc, graph, keys, parents, args, ret, push_count,
                   expand_count>>

\* Line 165, stack.pop(): the iteration runs on the last entry, and line 174,
\* for p in parents[state]: on its predecessors in the order of the list.
SolveStep ==
    /\ pc = "solve"
    /\ stack # <<>>
    /\ SolveAt(Len(stack), parents[stack[Len(stack)]])
    /\ UNCHANGED deviations

\* Line 187: the worklist is empty, state_lookup is returned.
SolveReturn ==
    /\ pc = "solve"
    /\ stack = <<>>
    /\ pc' = "done"
    /\ UNCHANGED deviations
    /\ UNCHANGED <<k, order, graph, keys, stack, parents, state_lookup,
                   winning_children, visited, explored_draw, args, ret, hist>>

----------------------------------------------------------------------------
(* solve_graph(k) for k in 2..MaxK                                         *)

Init ==
    /\ k \in 2..MaxK
    /\ order \in Orders
    /\ pc = "generate"
    /\ graph = EmptyMap
    /\ keys = <<>>
    /\ stack = <<initial_state>>
    /\ parents = EmptyMap
    /\ state_lookup = EmptyMap
    /\ winning_children = EmptyMap
    /\ visited = {}
    /\ explored_draw = FALSE
    /\ args = <<>>
    /\ ret = <<>>
    /\ push_count = Bump(EmptyMap, initial_state)
    /\ expand_count = EmptyMap
    /\ processed_as = EmptyMap
    /\ deviations = 0

Next ==
    GenStep \/ GenReturn \/ ReverseGraph \/ SolveInit \/ SolveStep \/ SolveReturn

Spec == Init /\ [][Next]_vars

\* solve_graph(k) for a kill modulus k <= 1: lines 52-58 and 130-150 take
\* any k, nothing compares it with a least value.
InitSmallK ==
    /\ k \in (-1)..1
    /\ order \in Orders
    /\ pc = "generate"
    /\ graph = EmptyMap
    /\ keys = <<>>
    /\ stack = <<initial_state>>
    /\ parents = EmptyMap
    /\ state_lookup = EmptyMap
    /\ winning_children = EmptyMap
    /\ visited = {}
    /\ explored_draw = FALSE
    /\ args = <<>>
    /\ ret = <<>>
    /\ push_count = Bump(EmptyMap, initial_state)
    /\ expand_count = EmptyMap
    /\ processed_as = EmptyMap
    /\ deviations = 0

SpecSmallK == InitSmallK /\ [][Next]_vars

\* The program runs on: each enabled step is eventually taken.
FairSpec == Spec /\ WF_vars(Next)

\* solve_graph with the order of line 165 and of lines 174 and 179 left open:
\* an iteration may take any entry of the worklist, not only the last, and
\* may go through the predecessors from the last to the first. Each such
\* choice is a deviation; a run makes at most MaxDeviations of them, on a
\* graph of k <= MaxKAny.
Cost(b) == IF b THEN 1 ELSE 0

SolveStepAny ==
    /\ pc = "solve"
    /\ stack # <<>>
    /\ \E i \in 1..Len(stack), backwards \in BOOLEAN :
          /\ deviations + Cost(i # Len(stack)) + Cost(backwards) <= MaxDeviations
          /\ deviations' = deviations + Cost(i # Len(stack)) + Cost(backwards)
          /\ SolveAt(i, IF backwards THEN Reversed(parents[stack[i]])
                                    ELSE parents[stack[i]])

InitAnyOrder == Init /\ k <= MaxKAny

NextAnyOrder ==
    GenStep \/ GenReturn \/ ReverseGraph \/ SolveInit \/ SolveStepAny
        \/ SolveReturn

SpecAnyOrder == InitAnyOrder /\ [][NextAnyOrder]_vars

----------------------------------------------------------------------------
(* The move generators on arbitrary hands                                  *)

Hands == (0..MaxHand) \X (0..MaxHand)

InitMoves ==
    /\ k \in 2..MaxK
    /\ order \in Orders
    /\ pc = "args"
    /\ args \in Hands \X Hands \X {0, 1}
    /\ ret = <<>>
    /\ graph = EmptyMap
    /\ keys = <<>>
    /\ stack = <<>>
    /\ parents = EmptyMap
    /\ state_lookup = EmptyMap
    /\ winning_children = EmptyMap
    /\ visited = {}
    /\ explored_draw = FALSE
    /\ push_count = EmptyMap
    /\ expand_count = EmptyMap
    /\ processed_as = EmptyMap
    /\ deviations = 0

CallTap ==
    /\ pc = "args"
    /\ pc' = "tap"
    /\ ret' = generate_tap_states(args[1], args[2], args[3], k)
    /\ UNCHANGED deviations
    /\ UNCHANGED <<k, order, graph, keys, stack, parents, state_lookup,
                   winning_children, visited, explored_draw, args, hist>>

CallSplit ==
    /\ pc = "args"
    /\ pc' = "split"
    /\ ret' = generate_split_states(args[1], args[2], args[3], k)
    /\ UNCHANGED deviations
    /\ UNCHANGED <<k, order, graph, keys, stack, parents, state_lookup,
                   winning_children, visited, explored_draw, args, hist>>

NextMoves == CallTap \/ CallSplit

SpecMoves == InitMoves /\ [][NextMoves]_vars

----------------------------------------------------------------------------
(* The rules of the game, stated on positions                              *)

P1Dead(p) == p[1] = 0 /\ p[2] = 0
P2Dead(p) == p[3] = 0 /\ p[4] = 0
Terminal(p) == P1Dead(p) \/ P2Dead(p)

\* Index of the slot before the mover's hands, and before the opponent's.
MoverBase(p) == IF p[5] = 0 THEN 0 ELSE 2
OtherBase(p) == IF p[5] = 0 THEN 2 ELSE 0

\* The mover's live hand i taps the opponent's live hand j.
Attack(p, i, j, kk) ==
    LET sum == p[MoverBase(p) + i] + p[OtherBase(p) + j]
    IN [p EXCEPT ![OtherBase(p) + j] = IF sum < kk THEN sum ELSE 0,
                 ![5] = 1 - p[5]]

AttackMoves(p, kk) ==
    {Attack(p, i, j, kk) : <<i, j>> \in
        {ij \in {1, 2} \X {1, 2} :
            p[MoverBase(p) + ij[1]] # 0 /\ p[OtherBase(p) + ij[2]] # 0}}

\* The mover redistributes the total into another unordered pair below kk.
SplitMoves(p, kk) ==
    LET a == p[MoverBase(p) + 1]
        b == p[MoverBase(p) + 2]
    IN {[p EXCEPT ![MoverBase(p) + 1] = l,
                  ![MoverBase(p) + 2] = a + b - l,
                  ![5] = 1 - p[5]] :
          l \in {x \in 0..(a + b) :
                   /\ x < kk
                   /\ a + b - x < kk
                   /\ ~(x = a /\ a + b - x = b)
                   /\ ~(x = b /\ a + b - x = a)}}

LegalMoves(p, kk) ==
    IF Terminal(p) THEN {} ELSE AttackMoves(p, kk) \cup SplitMoves(p, kk)

RECURSIVE Closure(_, _, _)
Closure(seen, frontier, kk) ==
    IF frontier = {} THEN seen
    ELSE LET new == UNION {LegalMoves(p, kk) : p \in frontier} \ seen
         IN Closure(seen \cup new, new, kk)

\* The positions reachable from (1,1,1,1,0) by zero or more legal moves.
Reachable(kk) == Closure({<<1, 1, 1, 1, 0>>}, {<<1, 1, 1, 1, 0>>}, kk)

Count(x, s) == Cardinality({i \in 1..Len(s) : s[i] = x})

NoDuplicates(s) == \A i, j \in 1..Len(s) : i # j => s[i] # s[j]

----------------------------------------------------------------------------
(* Claims                                                                  *)

\* C1: in the table solve_graph returns, every predecessor (in the forward
\* graph) of a LOSS position is WIN, and every WIN position has a successor
\* that is LOSS.
C1_PropagationCorrect ==
    pc = "done" =>
        \A q \in DOMAIN graph :
            /\ \A c \in Range(graph[q]) :
                   state_lookup[c] = -1 => state_lookup[q] = 1
            /\ state_lookup[q] = 1 =>
                   \E c \in Range(graph[q]) : state_lookup[c] = -1

C1_Witness ==
    /\ pc = "done"
    /\ k = 3
    /\ \E q \in DOMAIN graph : state_lookup[q] = -1 /\ ~Terminal(q)
    /\ \E q \in DOMAIN graph : state_lookup[q] = 1
    /\ \E q \in DOMAIN graph : state_lookup[q] = 0

\* C2: in the graph generate_graph returns, a position has an empty
\* successor list exactly when one player's two hands are both 0; so every
\* non-terminal position has a successor.
C2_TerminalIffNoSuccessors ==
    pc = "generated" =>
        \A p \in DOMAIN graph : (graph[p] = <<>>) <=> Terminal(p)

C2_Witness ==
    /\ pc = "generated"
    /\ \E p \in DOMAIN graph : Terminal(p) /\ graph[p] = <<>>
    /\ \E p \in DOMAIN graph :
           /\ ~Terminal(p)
           /\ p[1] = 0 /\ p[3] = 0
           /\ graph[p] # <<>>

\* C3: the keys of the graph generate_graph returns are exactly the positions
\* reachable from (1,1,1,1,0) by legal moves, every non-terminal key is
\* mapped to exactly its legal successors, and every successor is a key.
C3_GraphIsReachableSet ==
    pc = "generated" =>
        /\ DOMAIN graph = Reachable(k)
        /\ \A p \in DOMAIN graph :
               /\ ~Terminal(p) => Range(graph[p]) = LegalMoves(p, k)
               /\ Range(graph[p]) \subseteq DOMAIN graph

C3_Witness ==
    /\ pc = "generated"
    /\ k = 3
    /\ Cardinality(DOMAIN graph) > 100
    /\ \E p \in DOMAIN graph :
           AttackMoves(p, k) # {} /\ SplitMoves(p, k) # {}

\* C4: once a position's entry of state_lookup is WIN or LOSS, no step of
\* solve_graph changes it.
C4_WriteOnce ==
    [][\A p \in DOMAIN state_lookup :
           state_lookup[p] # 0 => state_lookup'[p] = state_lookup[p]]_vars

\* A WIN position whose unconditional assignment ran for two LOSS
\* successors, and a derived LOSS position that has been processed.
C4_Witness ==
    /\ pc = "solve"
    /\ \E p \in DOMAIN graph :
           /\ state_lookup[p] = 1
           /\ Cardinality({c \in Range(graph[p]) :
                             c \in visited /\ state_lookup[c] = -1}) >= 2
    /\ \E p \in visited : state_lookup[p] = -1 /\ ~Terminal(p)

\* C5: every terminal position among the keys has exactly one player with
\* both hands dead, and that player is the one to move.
C5_TerminalMoverIsDead ==
    pc = "generated" =>
        \A p \in DOMAIN graph :
            Terminal(p) =>
                /\ ~(P1Dead(p) /\ P2Dead(p))
                /\ P1Dead(p) => p[5] = 0
                /\ P2Dead(p) => p[5] = 1

C5_Witness ==
    /\ pc = "generated"
    /\ \E p \in DOMAIN graph : P1Dead(p) /\ p[5] = 0
    /\ \E p \in DOMAIN graph : P2Dead(p) /\ p[5] = 1

\* C6: r = reverse_graph(g) has the keys of g, and A occurs in r[B] as many
\* times as B occurs in g[A], for all A and B.
C6_ReverseConsistent ==
    pc = "reversed" =>
        /\ DOMAIN parents = DOMAIN graph
        /\ \A b \in DOMAIN parents : \A a \in Range(parents[b]) :
               a \in DOMAIN graph /\ Count(a, parents[b]) = Count(b, graph[a])
        /\ \A a \in DOMAIN graph : \A b \in Range(graph[a]) :
               b \in DOMAIN parents /\ Count(a, parents[b]) = Count(b, graph[a])

C6_Witness ==
    /\ pc = "reversed"
    /\ \E b \in DOMAIN parents : Len(parents[b]) >= 3 /\ graph[b] = <<>>
    /\ \E b \in DOMAIN parents : Len(parents[b]) = 1 /\ Len(graph[b]) >= 3

\* C7: no successor list of the graph generate_graph returns holds a
\* position twice, so its length is the number of distinct successors.
C7_NoDuplicateSuccessors ==
    pc = "generated" =>
        \A p \in DOMAIN graph :
            /\ NoDuplicates(graph[p])
            /\ Len(graph[p]) = Cardinality(Range(graph[p]))

\* The initial position: four attacks give two positions; with the two
\* splits its list has four entries.
C7_Witness ==
    /\ pc = "generated"
    /\ k = 3
    /\ Len(graph[<<1, 1, 1, 1, 0>>]) = 4

\* C8: every key of the generated graph has its four hands in 0..k-1 and a
\* turn flag in {0, 1}.
C8_HandsInRange ==
    pc = "generated" =>
        \A p \in DOMAIN graph :
            /\ \A i \in 1..4 : p[i] \in 0..(k - 1)
            /\ p[5] \in {0, 1}

C8_Witness ==
    /\ pc = "generated"
    /\ k = 4
    /\ \E p \in DOMAIN graph : p[1] = k - 1 /\ p[4] = 0

\* The successor C9 describes for attacking hand i and defending hand j:
\* player 1's hands first, the tapped hand replaced, the turn flipped.
TapResult(attacker, defender, turn, kk, i, j) ==
    LET sum == attacker[i] + defender[j]
        d == [n \in {1, 2} |->
                IF n # j THEN defender[n]
                ELSE IF sum < kk THEN sum ELSE 0]
    IN IF turn = 0
       THEN <<attacker[1], attacker[2], d[1], d[2], 1>>
       ELSE <<d[1], d[2], attacker[1], attacker[2], 0>>

LivePairs(attacker, defender) ==
    {ij \in {1, 2} \X {1, 2} : attacker[ij[1]] # 0 /\ defender[ij[2]] # 0}

\* C9: generate_tap_states returns, for each pair of a nonzero attacking
\* hand i and a nonzero defending hand j, exactly one successor in which
\* hand j holds the sum if it is below k and 0 otherwise, everything else
\* is unchanged and the turn is flipped; and it returns nothing else.
C9_TapStates ==
    pc = "tap" =>
        LET live == LivePairs(args[1], args[2])
        IN /\ \A ij \in live :
                  Count(TapResult(args[1], args[2], args[3], k, ij[1], ij[2]),
                        ret) = 1
           /\ \A n \in 1..Len(ret) : \E ij \in live :
                  ret[n] = TapResult(args[1], args[2], args[3], k,
                                     ij[1], ij[2])

\* Four live pairs, two of which kill the same hand: three successors, one
\* with a summed hand and two with a dead hand.
C9_Witness ==
    /\ pc = "tap"
    /\ Cardinality(LivePairs(args[1], args[2])) = 4
    /\ Len(ret) = 3
    /\ args[3] = 1
    /\ \E n \in 1..Len(ret) : ret[n][1] = args[1][1] + args[2][1]
    /\ \E n \in 1..Len(ret) : ret[n][2] = 0

\* The position C10 describes for the split (l, r).
SplitResult(defender, turn, l, r) ==
    IF turn = 0
    THEN <<l, r, defender[1], defender[2], 1>>
    ELSE <<defender[1], defender[2], l, r, 0>>

\* The ordered pairs (l, r) C10 allows for the mover's hands.
SplitPairs(attacker, kk) ==
    {lr \in (0..(attacker[1] + attacker[2]))
              \X (0..(attacker[1] + attacker[2])) :
        /\ lr[1] + lr[2] = attacker[1] + attacker[2]
        /\ lr[1] < kk
        /\ lr[2] < kk
        /\ {lr[1], lr[2]} # {attacker[1], attacker[2]}}

\* C10: generate_split_states returns exactly the positions in which the
\* mover's hands are a pair (l, r) with the mover's total, both below k,
\* other than the current unordered pair; the opponent's hands are unchanged
\* and the turn is flipped.
C10_SplitStates ==
    pc = "split" =>
        Range(ret) = {SplitResult(args[2], args[3], lr[1], lr[2]) :
                        lr \in SplitPairs(args[1], k)}

\* Hands (1, 2) with k = 4: (0, 3) and (3, 0) are returned, (1, 2) and
\* (2, 1) are not.
C10_Witness ==
    /\ pc = "split"
    /\ k = 4
    /\ args[1] = <<1, 2>>
    /\ args[3] = 0
    /\ Len(ret) = 2
    /\ \E n \in 1..Len(ret) : ret[n][1] = 0 /\ ret[n][2] = 3

\* C11: for k = 2 the table solve_graph returns classifies the initial
\* position (1,1,1,1,0) as WIN or LOSS, not DRAW.
C11_K2Decided ==
    (pc = "done" /\ k = 2) => state_lookup[<<1, 1, 1, 1, 0>>] \in {1, -1}

C11_Witness ==
    /\ pc = "done"
    /\ k = 2
    /\ state_lookup[<<1, 1, 1, 1, 0>>] = 1

\* C12, as stated: for k = 3 and for k = 4 the table solve_graph returns
\* classifies the initial position (1,1,1,1,0) as WIN.
C12_InitialWinK3K4 ==
    (pc = "done" /\ k \in {3, 4}) => state_lookup[<<1, 1, 1, 1, 0>>] = 1

\* C12, amended: the initial position is WIN for k = 4 and DRAW for k = 3.
C12_InitialWinK4DrawK3 ==
    pc = "done" =>
        /\ k = 4 => state_lookup[<<1, 1, 1, 1, 0>>] = 1
        /\ k = 3 => state_lookup[<<1, 1, 1, 1, 0>>] = 0

C12_Witness ==
    /\ pc = "done"
    /\ k = 3
    /\ state_lookup[<<1, 1, 1, 1, 0>>] = 0
    /\ \E p \in DOMAIN graph : state_lookup[p] = 1
    /\ \E p \in DOMAIN graph : state_lookup[p] = -1 /\ graph[p] # <<>>

\* C13, as stated: called with k <= 1, generate_graph rejects the parameter
\* and returns no graph.
C13_SmallKRejected == k <= 1 => pc \notin {"generated", "reversed", "solve", "done"}

\* The successors of q that were popped and processed as WIN.
ProcessedWinChildren(q) ==
    {c \in Range(graph[q]) :
        c \in DOMAIN processed_as /\ 1 \in Range(processed_as[c])}

\* C14: throughout solve_graph winning_children[Q] is at most len(g[Q]) and
\* is the number of distinct successors of Q processed as WIN; and in the
\* step that assigns LOSS to a non-terminal Q every successor of Q is WIN.
C14_LossOnlyAfterAllChildren ==
    /\ [](pc \in {"solve", "done"} =>
            \A q \in DOMAIN graph :
                /\ winning_children[q] <= Len(graph[q])
                /\ winning_children[q] = Cardinality(ProcessedWinChildren(q)))
    /\ [][\A q \in DOMAIN state_lookup :
              (graph[q] # <<>> /\ state_lookup[q] # -1 /\ state_lookup'[q] = -1)
                  => \A c \in Range(graph[q]) : state_lookup'[c] = 1]_vars

\* A position with several successors has just been assigned LOSS: it is
\* on the stack, not yet processed, and its counter is full.
C14_Witness ==
    /\ pc = "solve"
    /\ \E q \in DOMAIN graph :
           /\ Len(graph[q]) >= 3
           /\ state_lookup[q] = -1
           /\ q \notin visited
           /\ winning_children[q] = Len(graph[q])
    /\ \E q \in DOMAIN graph :
           winning_children[q] > 0 /\ winning_children[q] < Len(graph[q])

\* C15: when the worklist of solve_graph is exhausted, every position still
\* DRAW is non-terminal, has no LOSS successor and has a DRAW successor.
C15_DrawIsFixpoint ==
    (pc = "solve" /\ stack = <<>>) \/ pc = "done" =>
        \A p \in DOMAIN graph :
            state_lookup[p] = 0 =>
                /\ ~Terminal(p)
                /\ graph[p] # <<>>
                /\ \A c \in Range(graph[p]) : state_lookup[c] # -1
                /\ \E c \in Range(graph[p]) : state_lookup[c] = 0

\* A DRAW position with WIN successors and a DRAW successor.
C15_Witness ==
    /\ pc = "done"
    /\ \E p \in DOMAIN graph :
           /\ state_lookup[p] = 0
           /\ \E c \in Range(graph[p]) : state_lookup[c] = 1
           /\ \E c \in Range(graph[p]) : state_lookup[c] = 0

\* C16, as stated: solve_graph appends a position to its stack at most once
\* per classification; a position confirmed WIN and appended is not appended
\* again when a later LOSS successor confirms it.  A second append can only
\* happen while the first copy is on the stack (a popped position is in
\* visited), so the stack never holds a position twice.
C16_EnqueuedOnce == pc = "solve" => NoDuplicates(stack)

\* C16, amended: a step appends only positions that have not been processed,
\* a popped position that was processed before changes no table, and every
\* position is processed at most once.
C16_ProcessedOnce ==
    /\ [](\A p \in DOMAIN processed_as : Len(processed_as[p]) <= 1)
    /\ [][(pc = "solve" /\ pc' = "solve") =>
            /\ \A i \in Len(stack)..Len(stack') : stack'[i] \notin visited'
            /\ stack[Len(stack)] \in visited =>
                   /\ state_lookup' = state_lookup
                   /\ winning_children' = winning_children
                   /\ Len(stack') = Len(stack) - 1]_vars

\* A WIN position is on the stack twice, and a copy of a processed
\* position is still on the stack.
C16_Witness ==
    /\ pc = "solve"
    /\ \E i, j \in 1..Len(stack) :
           i < j /\ stack[i] = stack[j] /\ state_lookup[stack[i]] = 1
    /\ \E i \in 1..Len(stack) : stack[i] \in visited

\* C17: no position that solve_graph pops and that passes the visited check
\* is classified DRAW; the branch reporting a draw node never runs.
C17_NoDrawExplored ==
    /\ ~explored_draw
    /\ \A p \in DOMAIN processed_as : 0 \notin Range(processed_as[p])

\* The run is over, positions were processed, and DRAW positions remain.
C17_Witness ==
    /\ pc = "done"
    /\ k = 3
    /\ Cardinality(DOMAIN processed_as) > 50
    /\ \E p \in DOMAIN graph : state_lookup[p] = 0 /\ p \notin visited

\* C18: generate_graph pushes every position at most once and computes its
\* successors at most once, and its exploration loop ends.
C18_ExploredOnce ==
    /\ [](\A p \in DOMAIN push_count : push_count[p] <= 1)
    /\ [](\A p \in DOMAIN expand_count : expand_count[p] <= 1)
    /\ <>(pc # "generate")

\* The loop has ended; a position is the successor of two others and was
\* pushed once, and every non-terminal key was expanded.
C18_Witness ==
    /\ pc = "generated"
    /\ k = 3
    /\ \E a, b \in DOMAIN graph :
           /\ a # b
           /\ \E c \in Range(graph[a]) \cap Range(graph[b]) : push_count[c] = 1
    /\ \A p \in DOMAIN graph : graph[p] # <<>> => expand_count[p] = 1

\* C19: solve_graph's loop ends: every position passes the visited check at
\* most once, a run in the loop reaches an empty worklist and returns, and the
\* returned table gives every key of the graph one value among +1, -1 and 0.
C19_SolveTerminates ==
    /\ [](\A p \in DOMAIN processed_as : Len(processed_as[p]) <= 1)
    /\ (pc = "solve") ~> (pc = "solve" /\ stack = <<>>)
    /\ <>(pc = "done")
    /\ [](pc = "done" =>
            /\ stack = <<>>
            /\ DOMAIN state_lookup = DOMAIN graph
            /\ \A p \in DOMAIN graph : state_lookup[p] \in {1, -1, 0})

\* The table has been returned for the cyclic graph of k = 4: the three values
\* all occur, and a position that was never processed keeps the value 0.
C19_Witness ==
    /\ pc = "done"
    /\ k = 4
    /\ \A v \in {1, -1, 0} : \E p \in DOMAIN graph : state_lookup[p] = v
    /\ \E p \in DOMAIN graph \ DOMAIN processed_as : state_lookup[p] = 0
    /\ \E p \in DOMAIN processed_as : Len(processed_as[p]) = 1

\* The outcome of the game by the rules alone, with no worklist: starting from
\* the terminal positions as LOSS, a position with a move to a LOSS position
\* is WIN and a position whose moves all lead to WIN positions is LOSS, round
\* after round until nothing is added; what is left is DRAW.
RECURSIVE Rounds(_, _, _, _)
Rounds(W, L, S, kk) ==
    LET W1 == W \cup {p \in S : LegalMoves(p, kk) \cap L # {}}
        L1 == L \cup {p \in S : /\ LegalMoves(p, kk) # {}
                                /\ LegalMoves(p, kk) \subseteq W}
    IN IF W1 = W /\ L1 = L THEN <<W, L>> ELSE Rounds(W1, L1, S, kk)

Outcome(kk) ==
    LET S == Reachable(kk)
        fix == Rounds({}, {p \in S : Terminal(p)}, S, kk)
    IN [p \in S |-> IF p \in fix[1] THEN 1 ELSE IF p \in fix[2] THEN -1 ELSE 0]

\* C20: whatever entry of the worklist each iteration takes and in whichever
\* direction it goes through the predecessors, the table solve_graph returns
\* for k is the same: it is the outcome of the game for k.
C20_OrderIndependent == pc = "done" => state_lookup = Outcome(k)

\* The table was returned for k = 3 by a run that left the order of the code
\* once; it holds WIN, derived LOSS and DRAW positions.
C20_Witness ==
    /\ pc = "done"
    /\ k = 3
    /\ deviations = 1
    /\ \E p \in DOMAIN graph : state_lookup[p] = 1
    /\ \E p \in DOMAIN graph : state_lookup[p] = -1 /\ graph[p] # <<>>
    /\ \E p \in DOMAIN graph : state_lookup[p] = 0

====
